---------------------------- MODULE Spec2Model ----------------------------
(***************************************************************************)
(* Model of the DeepAgent product-query planner: the pattern catalogue,    *)
(* classify_query / should_activate_deep_agent / extract_parameters /      *)
(* create_plan / combine_results / format_results / execute_plan of        *)
(* deep_agent/planner.py, the Neo4jTool operations of                      *)
(* deep_agent/neo4j_tool.py and deep_agent_search of vector/vector.py.     *)
(*                                                                         *)
(* Strings are TLA+ strings handled character by character (Len, SubSeq,   *)
(* \o), and the regular expressions of the pattern catalogue are matched   *)
(* by a backtracking matcher with Python's priorities (leftmost start,     *)
(* greedy and lazy quantifiers, ordered alternation).                      *)
(***************************************************************************)
EXTENDS Integers, Sequences, FiniteSets, TLC

(***************************************************************************)
(* Characters and strings                                                  *)
(***************************************************************************)
\* \s of Python's re (the whitespace of the queries)
WS == {" ", "\t", "\n"}

\* \d of Python's re
Digit == {"0", "1", "2", "3", "4", "5", "6", "7", "8", "9"}

UpperChars == "ABCDEFGHIJKLMNOPQRSTUVWXYZÁÉÍÓÚÑ"

LowerChars == "abcdefghijklmnopqrstuvwxyzáéíóúñ"

Ch(s, i) == SubSeq(s, i, i)

\* the upper-case characters, each with its lower-case form
LowerOf ==
    [c \in {Ch(UpperChars, k) : k \in 1..Len(UpperChars)} |->
        Ch(LowerChars, CHOOSE k \in 1..Len(UpperChars) : Ch(UpperChars, k) = c)]

\* str.lower() of one character
LowerChar(c) == IF c \in DOMAIN LowerOf THEN LowerOf[c] ELSE c

RECURSIVE LowerFrom(_, _)
LowerFrom(s, i) ==
    IF i > Len(s) THEN "" ELSE LowerChar(Ch(s, i)) \o LowerFrom(s, i + 1)

\* str.lower()
Lower(s) == LowerFrom(s, 1)

RECURSIVE LStripFrom(_, _)
LStripFrom(s, i) ==
    IF i <= Len(s) /\ Ch(s, i) \in WS THEN LStripFrom(s, i + 1) ELSE i

RECURSIVE RStripFrom(_, _)
RStripFrom(s, j) ==
    IF j >= 1 /\ Ch(s, j) \in WS THEN RStripFrom(s, j - 1) ELSE j

\* str.strip()
Strip(s) == SubSeq(s, LStripFrom(s, 1), RStripFrom(s, Len(s)))

\* sub in s (Python), the CONTAINS of Cypher
Contains(s, sub) ==
    \E i \in 1..(Len(s) - Len(sub) + 1) : SubSeq(s, i, i + Len(sub) - 1) = sub

RECURSIVE DigitsValue(_, _, _)
DigitsValue(s, i, acc) ==
    IF i > Len(s) THEN acc
    ELSE LET d == CHOOSE d \in 0..9 : Ch("0123456789", d + 1) = Ch(s, i)
         IN  DigitsValue(s, i + 1, 10 * acc + d)

\* float() of a string of digits (the value; the model keeps integers)
ParseNumber(s) == DigitsValue(s, 1, 0)

(***************************************************************************)
(* Regular expressions: a pattern is a sequence of elements                *)
(***************************************************************************)
\* a literal string
L(v) == [t |-> "lit", v |-> v]

\* one character of a set, [ae]
OneOf(cs) == [t |-> "set", cs |-> cs]

\* (?:p)? , greedy
Opt(p) == [t |-> "opt", p |-> p]

\* (?:p1|p2|...), tried in order
Alt(ps) == [t |-> "alt", ps |-> ps]

\* cls+ greedy, cls one of "ws" (\s), "dot" (.), "digit" (\d)
Plus(cls) == [t |-> "plus", cls |-> cls, lazy |-> FALSE]

\* cls+? lazy
PlusLazy(cls) == [t |-> "plus", cls |-> cls, lazy |-> TRUE]

\* ( and ) of a capturing group
Open == [t |-> "open"]

Close == [t |-> "close"]

\* ^
Bol == [t |-> "bol"]

InClass(c, cls) ==
    CASE cls = "ws" -> c \in WS
      [] cls = "dot" -> c # "\n"
      [] cls = "digit" -> c \in Digit

RECURSIVE RunLen(_, _, _)
RunLen(s, i, cls) ==
    IF i <= Len(s) /\ InClass(Ch(s, i), cls) THEN 1 + RunLen(s, i + 1, cls) ELSE 0

NoMatch == [ok |-> FALSE, start |-> 0, end |-> 0, groups |-> <<>>]

RECURSIVE MatchHere(_, _, _, _)
RECURSIVE TryAlts(_, _, _, _, _, _)
RECURSIVE TryLens(_, _, _, _, _, _, _)

\* the match of pat at position i of s with the highest priority, or NoMatch
MatchHere(pat, s, i, g) ==
    IF Len(pat) = 0 THEN [ok |-> TRUE, start |-> 0, end |-> i, groups |-> g]
    ELSE LET n == Head(pat)
             rest == Tail(pat)
         IN CASE n.t = "lit" ->
                   IF i + Len(n.v) - 1 <= Len(s) /\ SubSeq(s, i, i + Len(n.v) - 1) = n.v
                   THEN MatchHere(rest, s, i + Len(n.v), g)
                   ELSE NoMatch
              [] n.t = "set" ->
                   IF i <= Len(s) /\ Ch(s, i) \in n.cs
                   THEN MatchHere(rest, s, i + 1, g)
                   ELSE NoMatch
              [] n.t = "opt" ->
                   LET r == MatchHere(n.p \o rest, s, i, g)
                   IN  IF r.ok THEN r ELSE MatchHere(rest, s, i, g)
              [] n.t = "alt" -> TryAlts(n.ps, 1, rest, s, i, g)
              [] n.t = "plus" ->
                   LET m == RunLen(s, i, n.cls)
                   IN  IF m = 0 THEN NoMatch
                       ELSE IF n.lazy THEN TryLens(rest, s, i, g, 1, m, 1)
                       ELSE TryLens(rest, s, i, g, m, 1, -1)
              [] n.t = "open" -> MatchHere(rest, s, i, Append(g, <<i, i>>))
              [] n.t = "close" ->
                   MatchHere(rest, s, i, [g EXCEPT ![Len(g)] = <<@[1], i>>])
              [] n.t = "bol" -> IF i = 1 THEN MatchHere(rest, s, i, g) ELSE NoMatch

TryAlts(ps, k, rest, s, i, g) ==
    IF k > Len(ps) THEN NoMatch
    ELSE LET r == MatchHere(ps[k] \o rest, s, i, g)
         IN  IF r.ok THEN r ELSE TryAlts(ps, k + 1, rest, s, i, g)

\* a run of len characters, then the rest; len goes from `len` to `last` by `step`
TryLens(rest, s, i, g, len, last, step) ==
    LET r == MatchHere(rest, s, i + len, g)
    IN  IF r.ok THEN r
        ELSE IF len = last THEN NoMatch
        ELSE TryLens(rest, s, i, g, len + step, last, step)

RECURSIVE SearchFrom(_, _, _)
SearchFrom(pat, s, i) ==
    IF i > Len(s) + 1 THEN NoMatch
    ELSE LET r == MatchHere(pat, s, i, <<>>)
         IN  IF r.ok THEN [r EXCEPT !.start = i] ELSE SearchFrom(pat, s, i + 1)

\* re.search(pat, s): the leftmost match
Search(pat, s) == SearchFrom(pat, s, 1)

\* match.group(k)
Group(m, s, k) == SubSeq(s, m.groups[k][1], m.groups[k][2] - 1)


(***************************************************************************)
(* The pattern catalogue of DeepAgentPlanner                               *)
(***************************************************************************)
\* \s+
Sp == Plus("ws")

\* (.+)
CapGreedy == <<Open, Plus("dot"), Close>>

\* (.+?)
CapLazy == <<Open, PlusLazy("dot"), Close>>

COMPARISON_PATTERNS ==
    << <<L("compar"), OneOf({"a", "e"}), Opt(<<L("r")>>), Sp>> \o CapLazy
          \o <<Sp, Alt(<< <<L("vs")>>, <<L("versus")>>, <<L("con")>>, <<L("y")>> >>), Sp>>
          \o CapGreedy,
       <<L("diferencia"), Opt(<<L("s")>>), Sp, L("entre"), Sp>> \o CapLazy
          \o <<Sp, L("y"), Sp>> \o CapGreedy,
       <<Alt(<< <<L("cuál")>>, <<L("cual")>>, <<L("que")>> >>), Sp, L("es"), Sp,
         L("mejor"), Sp>> \o CapLazy \o <<Sp, L("o"), Sp>> \o CapGreedy >>

SIMILARITY_PATTERNS ==
    << <<L("similar"), Opt(<<L("es")>>), Sp, L("a"), Opt(<<L("l")>>), Sp>> \o CapGreedy,
       <<L("parecido"), Sp, L("a"), Opt(<<L("l")>>), Sp>> \o CapGreedy,
       <<L("alternativa"), Opt(<<L("s")>>), Sp, L("a"), Opt(<<L("l")>>), Sp>> \o CapGreedy,
       <<L("como"), Sp>> \o CapGreedy \o <<Sp, L("pero")>> >>

PRICE_PATTERNS ==
    << <<L("más"), Sp, L("barato"), Sp, L("que"), Sp>> \o CapGreedy,
       <<L("menos"), Sp, L("caro"), Sp, L("que"), Sp>> \o CapGreedy,
       <<L("económico"), Sp, Alt(<< <<L("que")>>, <<L("a")>> >>), Sp>> \o CapGreedy,
       <<L("mejor"), Sp, L("precio"), Sp, L("que"), Sp>> \o CapGreedy >>

RECOMMENDATION_PATTERNS ==
    << <<L("mejor"), Sp, L("para"), Sp>> \o CapGreedy,
       <<L("recomiend"), OneOf({"a", "o"}), Sp, L("para"), Sp>> \o CapGreedy,
       <<Alt(<< <<L("lo")>>, <<L("el")>> >>), Sp, L("mejor"), Sp, L("para"), Sp>>
          \o CapGreedy,
       <<L("ideal"), Sp, L("para"), Sp>> \o CapGreedy >>

\* ^(el|la|los|las|un|una|unos|unas)\s+
ArticlePattern ==
    <<Bol, Open,
      Alt(<< <<L("el")>>, <<L("la")>>, <<L("los")>>, <<L("las")>>, <<L("un")>>,
             <<L("una")>>, <<L("unos")>>, <<L("unas")>> >>),
      Close, Sp>>

\* talla\s+(\d+(?:\.\d+)?)
SizePattern ==
    <<L("talla"), Sp, Open, Plus("digit"), Opt(<<L("."), Plus("digit")>>), Close>>

\* (?:menor|menos|hasta)\s+(?:de\s+)?(?:USD\s+)?(\d+)
PricePattern ==
    <<Alt(<< <<L("menor")>>, <<L("menos")>>, <<L("hasta")>> >>), Sp,
      Opt(<<L("de"), Sp>>), Opt(<<L("USD"), Sp>>), Open, Plus("digit"), Close>>

\* for pattern in patterns: if re.search(pattern, s): the first such match
RECURSIVE FirstMatchFrom(_, _, _)
FirstMatchFrom(patterns, s, k) ==
    IF k > Len(patterns) THEN NoMatch
    ELSE LET m == Search(patterns[k], s)
         IN  IF m.ok THEN m ELSE FirstMatchFrom(patterns, s, k + 1)

FirstMatch(patterns, s) == FirstMatchFrom(patterns, s, 1)

(***************************************************************************)
(* DeepAgentPlanner: classification                                        *)
(***************************************************************************)
\* variant: every query that is not empty activates
should_activate_any_query(query) == Len(query) > 0

\* variant: the activation test without the recommendation patterns
should_activate_without_recommendation(query) ==
    LET query_lower == Lower(query)
        all_patterns == COMPARISON_PATTERNS \o SIMILARITY_PATTERNS \o PRICE_PATTERNS
    IN  FirstMatch(all_patterns, query_lower).ok

should_activate_deep_agent(query) ==
    LET query_lower == Lower(query)
        all_patterns == COMPARISON_PATTERNS \o SIMILARITY_PATTERNS
                           \o PRICE_PATTERNS \o RECOMMENDATION_PATTERNS
    IN  FirstMatch(all_patterns, query_lower).ok

\* variant: the price patterns tried before the similarity patterns
classify_query_price_first(query) ==
    LET query_lower == Lower(query)
    IN  IF FirstMatch(COMPARISON_PATTERNS, query_lower).ok THEN "comparison"
        ELSE IF FirstMatch(PRICE_PATTERNS, query_lower).ok THEN "price_comparison"
        ELSE IF FirstMatch(SIMILARITY_PATTERNS, query_lower).ok THEN "similarity"
        ELSE IF FirstMatch(RECOMMENDATION_PATTERNS, query_lower).ok THEN "recommendation"
        ELSE "simple"

classify_query(query) ==
    LET query_lower == Lower(query)
    IN  IF FirstMatch(COMPARISON_PATTERNS, query_lower).ok THEN "comparison"
        ELSE IF FirstMatch(SIMILARITY_PATTERNS, query_lower).ok THEN "similarity"
        ELSE IF FirstMatch(PRICE_PATTERNS, query_lower).ok THEN "price_comparison"
        ELSE IF FirstMatch(RECOMMENDATION_PATTERNS, query_lower).ok THEN "recommendation"
        ELSE "simple"

(***************************************************************************)
(* DeepAgentPlanner: parameters and plans                                  *)
(* A dict is a function from its keys; params.get(k, d) is Get.            *)
(***************************************************************************)
EmptyDict == [k \in {} |-> ""]

\* dict.get(key, default)
Get(d, key, default) == IF key \in DOMAIN d THEN d[key] ELSE default

\* a variant that removes a second determiner after the first
StripArticleTwice(product) ==
    LET m == MatchHere(ArticlePattern, Lower(product), 1, <<>>)
        rest == IF m.ok THEN SubSeq(product, m.end, Len(product)) ELSE product
        n == MatchHere(ArticlePattern, Lower(rest), 1, <<>>)
    IN  IF n.ok THEN SubSeq(rest, n.end, Len(rest)) ELSE rest

\* re.sub(r'^(el|la|los|las|un|una|unos|unas)\s+', '', product, flags=re.IGNORECASE)
StripArticle(product) ==
    LET m == MatchHere(ArticlePattern, Lower(product), 1, <<>>)
    IN  IF m.ok THEN SubSeq(product, m.end, Len(product)) ELSE product

\* a variant that reads a use case for every query type but the first three
ProductParamsUseCaseByDefault(query_lower, query_type) ==
    IF query_type = "comparison"
    THEN LET m == FirstMatch(COMPARISON_PATTERNS, query_lower)
         IN  IF m.ok
             THEN ("product1" :> Strip(Group(m, query_lower, 1)))
                     @@ ("product2" :> Strip(Group(m, query_lower, 2)))
             ELSE EmptyDict
    ELSE IF query_type \in {"similarity", "price_comparison"}
    THEN LET patterns == IF query_type = "similarity" THEN SIMILARITY_PATTERNS
                         ELSE PRICE_PATTERNS
             m == FirstMatch(patterns, query_lower)
         IN  IF m.ok
             THEN "reference_product" :> StripArticle(Strip(Group(m, query_lower, 1)))
             ELSE EmptyDict
    ELSE LET m == FirstMatch(RECOMMENDATION_PATTERNS, query_lower)
         IN  IF m.ok THEN "use_case" :> Strip(Group(m, query_lower, 1)) ELSE EmptyDict

\* PASO 2 and 3 of extract_parameters: the parameters of the query type
ProductParams(query_lower, query_type) ==
    IF query_type = "comparison"
    THEN LET m == FirstMatch(COMPARISON_PATTERNS, query_lower)
         IN  IF m.ok
             THEN ("product1" :> Strip(Group(m, query_lower, 1)))
                     @@ ("product2" :> Strip(Group(m, query_lower, 2)))
             ELSE EmptyDict
    ELSE IF query_type \in {"similarity", "price_comparison"}
    THEN LET patterns == IF query_type = "similarity" THEN SIMILARITY_PATTERNS
                         ELSE PRICE_PATTERNS
             m == FirstMatch(patterns, query_lower)
         IN  IF m.ok
             THEN "reference_product" :> StripArticle(Strip(Group(m, query_lower, 1)))
             ELSE EmptyDict
    ELSE IF query_type = "recommendation"
    THEN LET m == FirstMatch(RECOMMENDATION_PATTERNS, query_lower)
         IN  IF m.ok THEN "use_case" :> Strip(Group(m, query_lower, 1)) ELSE EmptyDict
    ELSE EmptyDict

\* PASO 4: params['size']
SizeParam(query_lower) ==
    LET size_match == Search(SizePattern, query_lower)
    IN  IF size_match.ok THEN "size" :> Group(size_match, query_lower, 1) ELSE EmptyDict

\* PASO 5: params['max_price']
PriceParam(query_lower) ==
    LET price_match == Search(PricePattern, query_lower)
    IN  IF price_match.ok
        THEN "max_price" :> ParseNumber(Group(price_match, query_lower, 1))
        ELSE EmptyDict

extract_parameters(query, query_type) ==
    LET query_lower == Lower(query)
    IN  PriceParam(query_lower) @@ SizeParam(query_lower)
            @@ ProductParams(query_lower, query_type)

\* the steps, use_neo4j and use_qdrant of create_plan for a query type
PlanSteps(query_type, params) ==
    CASE query_type = "simple" ->
           << "1. Buscar productos relevantes en Qdrant (filtro: stock disponible)",
              "2. Retornar top resultados" >>
      [] query_type = "comparison" ->
           << "1. Buscar productos '" \o Get(params, "product1", "") \o "' y '"
                  \o Get(params, "product2", "") \o "' en Neo4j",
              "2. Obtener atributos comparables (precio, categoría, características)",
              "3. Generar comparativa estructurada",
              "4. Enriquecer con información adicional de Qdrant si es necesario" >>
      [] query_type = "similarity" ->
           << "1. Identificar producto de referencia: '"
                  \o Get(params, "reference_product", "") \o "'",
              "2. Consultar Neo4j: productos con relación SIMILAR_A",
              "3. Filtrar por stock disponible",
              "4. Ordenar por relevancia (misma categoría, precio similar)" >>
      [] query_type = "price_comparison" ->
           << "1. Identificar producto de referencia: '"
                  \o Get(params, "reference_product", "") \o "'",
              "2. Consultar Neo4j: productos con relación MAS_BARATO_QUE",
              "3. Filtrar por stock disponible y talla si aplica",
              "4. Retornar alternativas más económicas" >>
      [] query_type = "recommendation" ->
           << "1. Analizar caso de uso: '" \o Get(params, "use_case", "") \o "'",
              "2. Buscar en Neo4j productos por categoría optimizada",
              "3. Complementar con búsqueda semántica en Qdrant",
              "4. Consolidar recomendaciones basadas en atributos" >>
      [] OTHER -> <<>>

PlanUsesNeo4j(query_type) ==
    query_type \in {"comparison", "similarity", "price_comparison", "recommendation"}

\* variant: the vector store also searched for similarity plans
PlanUsesQdrantForSimilarity(query_type) ==
    query_type \in {"simple", "comparison", "recommendation", "similarity"}

PlanUsesQdrant(query_type) ==
    query_type \in {"simple", "comparison", "recommendation"}

create_plan(query) ==
    LET query_type == classify_query(query)
        params == extract_parameters(query, query_type)
    IN  [ steps |-> PlanSteps(query_type, params),
          use_neo4j |-> PlanUsesNeo4j(query_type),
          use_qdrant |-> PlanUsesQdrant(query_type),
          query_type |-> query_type,
          extracted_params |-> params ]

(***************************************************************************)
(* Python values and outcomes                                              *)
(* A result handed between the ports, combine_results and format_results   *)
(* is a list or a dict; a call either returns a value or raises.           *)
(***************************************************************************)
PyList(seq) == [type |-> "list", v |-> seq]

PyDict(d) == [type |-> "dict", v |-> d]

Return(value) == [raised |-> FALSE, exc |-> "", value |-> value]

Raise(exc) == [raised |-> TRUE, exc |-> exc, value |-> ""]

\* bool(x) of a list or a dict
Truthy(x) == IF x.type = "list" THEN Len(x.v) > 0 ELSE DOMAIN x.v # {}

Min(a, b) == IF a < b THEN a ELSE b

\* str() of a price (prices are integers in the model)
PriceStr(price) == ToString(price)

RECURSIVE JoinFrom(_, _, _)
JoinFrom(sep, parts, k) ==
    IF k > Len(parts) THEN ""
    ELSE IF k = Len(parts) THEN parts[k]
    ELSE parts[k] \o sep \o JoinFrom(sep, parts, k + 1)

\* sep.join(parts)
Join(sep, parts) == JoinFrom(sep, parts, 1)

(***************************************************************************)
(* DeepAgentPlanner: combine_results and format_results                    *)
(***************************************************************************)
\* unique[:10]
TopN == 10

\* variant: an empty id counts as an id
HasIdKey(r) == "id" \in DOMAIN r

\* r.get('id') is truthy: the id is present and not empty
HasId(r) == "id" \in DOMAIN r /\ r["id"] # ""

RECURSIVE DedupFrom(_, _, _, _)
\* for r in combined: if id and id not in seen: seen.add(id); unique.append(r)
DedupFrom(combined, k, seen, unique) ==
    IF k > Len(combined) THEN unique
    ELSE LET r == combined[k]
         IN  IF HasId(r) /\ r["id"] \notin seen
             THEN DedupFrom(combined, k + 1, seen \cup {r["id"]}, Append(unique, r))
             ELSE DedupFrom(combined, k + 1, seen, unique)

\* variant: one record more than n
TruncateOneMore(unique, n) == SubSeq(unique, 1, Min(n + 1, Len(unique)))

\* unique[:n]
Truncate(unique, n) == SubSeq(unique, 1, Min(n, Len(unique)))

\* variant: the vector records put before the graph records
CombineListsVectorFirst(neo4j_list, qdrant_list) ==
    Truncate(DedupFrom(qdrant_list \o neo4j_list, 1, {}, <<>>), TopN)

\* combine_results on two lists
CombineLists(neo4j_list, qdrant_list) ==
    Truncate(DedupFrom(neo4j_list \o qdrant_list, 1, {}, <<>>), TopN)

\* combine_results: neo4j_results + qdrant_results raises TypeError unless both are lists
combine_results(neo4j_results, qdrant_results) ==
    IF neo4j_results.type = "list" /\ qdrant_results.type = "list"
    THEN Return(PyList(CombineLists(neo4j_results.v, qdrant_results.v)))
    ELSE Raise("TypeError")

\* variant: the list heading alone, for no results
EmptyListing == ""

NoResultsMessage == "No se encontraron productos que cumplan los criterios."

\* one line of the numbered list
FormatLine(i, product) ==
    ToString(i) \o ". **" \o product["name"] \o "** - USD " \o PriceStr(product["price"])
        \o " (Stock: " \o Get(product, "stock_status", "instock") \o ")"

\* the comparison template
FormatComparison(results) ==
    LET p1 == results["product1"]
        p2 == results["product2"]
    IN  "**Comparación de productos:**\n\n"
        \o "**" \o p1["name"] \o "**\n"
        \o "- Precio: USD " \o PriceStr(p1["price"]) \o "\n"
        \o "- Categorías: " \o Join(", ", p1["categories"]) \o "\n"
        \o "- Stock: " \o p1["stock_status"] \o "\n\n"
        \o "**" \o p2["name"] \o "**\n"
        \o "- Precio: USD " \o PriceStr(p2["price"]) \o "\n"
        \o "- Categorías: " \o Join(", ", p2["categories"]) \o "\n"
        \o "- Stock: " \o p2["stock_status"] \o "\n\n"
        \o "**Diferencia de precio:** USD " \o PriceStr(results["price_difference"]) \o "\n"
        \o "**Más económico:** " \o results["cheaper"]

\* the numbered list of results[:10]
FormatList(products) ==
    LET shown == Truncate(products, TopN)
    IN  Join("\n", [i \in 1..Len(shown) |-> FormatLine(i, shown[i])])

\* format_results: results[:10] of a dict raises (TypeError, or KeyError from Python 3.12),
\* product['name'] and product['price'] of a record without them raise KeyError
format_results(results, query_type) ==
    IF ~Truthy(results) THEN Return(NoResultsMessage)
    ELSE IF results.type = "dict" /\ "error" \in DOMAIN results.v
    THEN Return(results.v["error"])
    ELSE IF query_type = "comparison" /\ results.type = "dict"
             /\ "product1" \in DOMAIN results.v
    THEN Return(FormatComparison(results.v))
    ELSE IF results.type = "dict" THEN Raise("TypeError")
    ELSE IF \E i \in 1..Min(TopN, Len(results.v)) :
                ~({"name", "price"} \subseteq DOMAIN results.v[i])
    THEN Raise("KeyError")
    ELSE Return(FormatList(results.v))

(***************************************************************************)
(* The graph store: Producto nodes, PERTENECE_A and SIMILAR_A relations    *)
(* as create_neo4j_nodes_and_relations writes them.  An edge to a product   *)
(* that is out of stock by now is kept (MERGE never deletes).              *)
(***************************************************************************)
GraphProducts ==
    { [id |-> "1", name |-> "Pulsera 9", price |-> 100, stock_status |-> "instock"],
      [id |-> "2", name |-> "Pulsera Cuarzo Rosa", price |-> 80, stock_status |-> "instock"],
      [id |-> "3", name |-> "Pulsera Negra", price |-> 80, stock_status |-> "instock"],
      [id |-> "4", name |-> "Pulsera Doble Vuelta", price |-> 60,
       stock_status |-> "outofstock"] }

\* (p)-[:PERTENECE_A]->(c): the category names of a product id
GraphCategories ==
    [i \in {"1", "2", "3", "4"} |->
        CASE i = "1" -> {"Pulseras"}
          [] i = "2" -> {"Pulseras", "Para mujeres"}
          [] i = "3" -> {"Para hombres"}
          [] i = "4" -> {"Pulseras"}]

\* (p1)-[:SIMILAR_A]->(p2), by id
SimilarEdges == { <<"1", "2">>, <<"2", "3">>, <<"1", "4">> }

\* the orders in which a query without ORDER BY may return the rows S
Perms(S) ==
    { f \in [1..Cardinality(S) -> S] : \A i, j \in 1..Cardinality(S) : i # j => f[i] # f[j] }

\* ORDER BY p.price ASC: the orders of the rows S that ascend by price (ties in any order)
OrderByPrice(S) ==
    { f \in Perms(S) : \A i, j \in 1..Len(f) : i < j => f[i].price <= f[j].price }

\* LIMIT $limit
Limit(seqs, limit) == { Truncate(f, limit) : f \in seqs }

\* toLower(n) CONTAINS toLower($name)
NameMatches(n, name) == Contains(Lower(n), Lower(name))

\* RETURN p.id as id, p.name as name, p.price as price, p.stock_status as stock_status
Row(p) == [id |-> p.id, name |-> p.name, price |-> p.price, stock_status |-> p.stock_status]

\* find_product_by_name: <<>> is None; LIMIT 1 without ORDER BY returns any one match
find_product_by_name(product_name) ==
    LET matches == { p \in GraphProducts :
                        NameMatches(p.name, product_name) /\ p.stock_status = "instock" }
    IN  IF matches = {} THEN { <<>> } ELSE { <<Row(p)>> : p \in matches }

\* a variant that returns the similar products of any stock status
find_similar_products_any_stock(product_name, limit) ==
    LET rows == { p2 \in GraphProducts :
                    \E p1 \in GraphProducts :
                        /\ NameMatches(p1.name, product_name)
                        /\ (<<p1.id, p2.id>> \in SimilarEdges
                              \/ <<p2.id, p1.id>> \in SimilarEdges) }
    IN  Limit({ [i \in 1..Len(f) |-> Row(f[i])] : f \in Perms(rows) }, limit)

find_similar_products(product_name, limit) ==
    LET rows == { p2 \in GraphProducts :
                    /\ p2.stock_status = "instock"
                    /\ \E p1 \in GraphProducts :
                          /\ NameMatches(p1.name, product_name)
                          /\ (<<p1.id, p2.id>> \in SimilarEdges
                                \/ <<p2.id, p1.id>> \in SimilarEdges) }
    IN  Limit({ [i \in 1..Len(f) |-> Row(f[i])] : f \in Perms(rows) }, limit)

\* variant: products of the same price as the reference returned too
CheaperOrEqual(reference, limit) ==
    LET rows == { p \in GraphProducts :
                    p.price <= reference.price /\ p.stock_status = "instock" }
    IN  Limit({ [i \in 1..Len(f) |-> Row(f[i])] : f \in OrderByPrice(rows) }, limit)

\* the second query of find_cheaper_alternatives, for a resolved reference
CheaperThan(reference, limit) ==
    LET rows == { p \in GraphProducts :
                    p.price < reference.price /\ p.stock_status = "instock" }
    IN  Limit({ [i \in 1..Len(f) |-> Row(f[i])] : f \in OrderByPrice(rows) }, limit)

find_cheaper_alternatives(product_name, limit) ==
    UNION { IF reference = <<>> THEN { <<>> } ELSE CheaperThan(reference[1], limit) :
            reference \in find_product_by_name(product_name) }

\* MATCH (p:Producto {id: $product_id})-[:PERTENECE_A]->(c:Categoria) RETURN c.name
CategoriesOf(product_id) == Perms(GraphCategories[product_id])

\* variant: the price difference with its sign
ComparisonSigned(p1, p2, p1_cats, p2_cats) ==
    [ product1 |-> [name |-> p1.name, price |-> p1.price, categories |-> p1_cats,
                    stock_status |-> p1.stock_status],
      product2 |-> [name |-> p2.name, price |-> p2.price, categories |-> p2_cats,
                    stock_status |-> p2.stock_status],
      price_difference |-> p1.price - p2.price,
      cheaper |-> IF p1.price < p2.price THEN p1.name ELSE p2.name ]

\* the result dict of compare_products for two resolved products
Comparison(p1, p2, p1_cats, p2_cats) ==
    [ product1 |-> [name |-> p1.name, price |-> p1.price, categories |-> p1_cats,
                    stock_status |-> p1.stock_status],
      product2 |-> [name |-> p2.name, price |-> p2.price, categories |-> p2_cats,
                    stock_status |-> p2.stock_status],
      price_difference |-> IF p1.price >= p2.price THEN p1.price - p2.price
                           ELSE p2.price - p1.price,
      cheaper |-> IF p1.price < p2.price THEN p1.name ELSE p2.name ]

CompareError(product1_name, product2_name) ==
    "error" :> ("No se encontraron uno o ambos productos: " \o product1_name
                   \o ", " \o product2_name)

\* variant: the categories queried before the two products are tested
CompareCypherEager(product1_name, product2_name, p1, p2) ==
    << <<"find_product_by_name", product1_name>>,
       <<"find_product_by_name", product2_name>> >>
      \o (IF p1 = <<>> THEN <<>> ELSE << <<"categories", p1[1].id>> >>)
      \o (IF p2 = <<>> THEN <<>> ELSE << <<"categories", p2[1].id>> >>)

\* the Cypher queries of compare_products, in order: the two lookups by name, then
\* the categories of the two products found
CompareCypher(product1_name, product2_name, p1, p2) ==
    << <<"find_product_by_name", product1_name>>,
       <<"find_product_by_name", product2_name>> >>
      \o (IF p1 = <<>> \/ p2 = <<>> THEN <<>>
          ELSE << <<"categories", p1[1].id>>, <<"categories", p2[1].id>> >>)

\* compare_products with the queries it runs: the value returned and the Cypher issued
compare_products_run(product1_name, product2_name) ==
    UNION { IF p1 = <<>> \/ p2 = <<>>
            THEN { [value |-> CompareError(product1_name, product2_name),
                    cypher |-> CompareCypher(product1_name, product2_name, p1, p2)] }
            ELSE { [value |-> Comparison(p1[1], p2[1], c1, c2),
                    cypher |-> CompareCypher(product1_name, product2_name, p1, p2)] :
                     c1 \in CategoriesOf(p1[1].id), c2 \in CategoriesOf(p2[1].id) } :
            p1 \in find_product_by_name(product1_name),
            p2 \in find_product_by_name(product2_name) }

compare_products(product1_name, product2_name) ==
    { r.value : r \in compare_products_run(product1_name, product2_name) }

\* one row per (product, category) pair that matches; a product of two matching
\* categories is returned twice
find_by_category(category, limit) ==
    LET rows == { pc \in GraphProducts \X UNION { GraphCategories[i] : i \in DOMAIN GraphCategories } :
                    /\ pc[2] \in GraphCategories[pc[1].id]
                    /\ NameMatches(pc[2], category)
                    /\ pc[1].stock_status = "instock" }
        ordered == { f \in Perms(rows) :
                       \A i, j \in 1..Len(f) : i < j => f[i][1].price <= f[j][1].price }
    IN  Limit({ [i \in 1..Len(f) |-> Row(f[i][1])] : f \in ordered }, limit)

(***************************************************************************)
(* The vector store: the documents of catalog_kb                           *)
(***************************************************************************)
VectorDocs ==
    { [page_content |-> "Pulsera Cuarzo Rosa",
       metadata |-> [sku |-> "2", price |-> 80, stock_status |-> "instock"]],
      [page_content |-> "Pulsera Cuero",
       metadata |-> [sku |-> "5", price |-> 40, stock_status |-> "instock"]],
      [page_content |-> "Pulsera Plata",
       metadata |-> [price |-> 90, stock_status |-> "instock"]],
      [page_content |-> "Pulsera Doble Vuelta",
       metadata |-> [sku |-> "4", price |-> 60, stock_status |-> "outofstock"]] }

\* vs.similarity_search(query, k=k, filter=stock_status = 'instock'): the k nearest
\* in-stock documents, in the order of a ranking the backend owns
similarity_search(query, k) ==
    Limit(Perms({ d \in VectorDocs : d.metadata.stock_status = "instock" }), k)

\* the dict get_products_qdrant_list builds of one document
QdrantRecord(doc) ==
    LET meta == doc.metadata
    IN  [ id |-> Get(meta, "sku", ""),
          name |-> Get(meta, "name", ""),
          price |-> Get(meta, "price", 0),
          stock_status |-> Get(meta, "stock_status", ""),
          categories |-> Get(meta, "categories", <<>>) ]

get_products_qdrant_list(query, k) ==
    { [i \in 1..Len(results) |-> QdrantRecord(results[i])] :
        results \in similarity_search(query, k) }

\* repr of the metadata dict, without 'extras'
MetaRepr(meta) ==
    LET keys == SelectSeq(<<"sku", "price", "stock_status">>, LAMBDA k : k \in DOMAIN meta)
        item(k) == "'" \o k \o "': "
                     \o (IF k = "price" THEN PriceStr(meta[k]) ELSE "'" \o meta[k] \o "'")
    IN  "{" \o Join(", ", [i \in 1..Len(keys) |-> item(keys[i])]) \o "}"

_combine_docs_text(docs) ==
    IF Len(docs) = 0 THEN "No se encontraron resultados relevantes."
    ELSE Join("\n\n", [i \in 1..Len(docs) |->
                          docs[i].page_content \o "\n" \o MetaRepr(docs[i].metadata)])

\* get_products_rag: the texts the search may return
get_products_rag(query) ==
    { _combine_docs_text(results) : results \in similarity_search(query, 20) }

(***************************************************************************)
(* deep_agent_search: the two executors handed to execute_plan             *)
(***************************************************************************)
\* variant: the recommendation asked with the limit of the other intents
Neo4jCallLimitFive(plan_obj) ==
    LET params == plan_obj.extracted_params
    IN  CASE plan_obj.query_type = "similarity" ->
               <<"find_similar_products", <<Get(params, "reference_product", "")>>, 5>>
          [] plan_obj.query_type = "price_comparison" ->
               <<"find_cheaper_alternatives", <<Get(params, "reference_product", "")>>, 5>>
          [] plan_obj.query_type = "comparison" ->
               <<"compare_products",
                 <<Get(params, "product1", ""), Get(params, "product2", "")>>, 0>>
          [] plan_obj.query_type = "recommendation" ->
               <<"find_by_category", <<Get(params, "use_case", "")>>, 5>>
          [] OTHER -> <<"none", <<>>, 0>>

\* the graph operation neo4j_executor calls for a plan: <<operation, arguments>>
Neo4jCall(plan_obj) ==
    LET params == plan_obj.extracted_params
    IN  CASE plan_obj.query_type = "similarity" ->
               <<"find_similar_products", <<Get(params, "reference_product", "")>>, 5>>
          [] plan_obj.query_type = "price_comparison" ->
               <<"find_cheaper_alternatives", <<Get(params, "reference_product", "")>>, 5>>
          [] plan_obj.query_type = "comparison" ->
               <<"compare_products",
                 <<Get(params, "product1", ""), Get(params, "product2", "")>>, 0>>
          [] plan_obj.query_type = "recommendation" ->
               <<"find_by_category", <<Get(params, "use_case", "")>>, 10>>
          [] OTHER -> <<"none", <<>>, 0>>

\* the results neo4j_executor may return for a plan
neo4j_executor(plan_obj) ==
    LET call == Neo4jCall(plan_obj)
        op == call[1]
        args == call[2]
        limit == call[3]
    IN  CASE op = "find_similar_products" ->
               { PyList(r) : r \in find_similar_products(args[1], limit) }
          [] op = "find_cheaper_alternatives" ->
               { PyList(r) : r \in find_cheaper_alternatives(args[1], limit) }
          [] op = "compare_products" ->
               { PyDict(r) : r \in compare_products(args[1], args[2]) }
          [] op = "find_by_category" ->
               { PyList(r) : r \in find_by_category(args[1], limit) }
          [] OTHER -> { PyList(<<>>) }

\* a variant that searches only for a plan that has steps
QdrantSearchesWhenStepped(plan_obj) ==
    /\ plan_obj.steps # <<>>
    /\ plan_obj.query_type \in {"recommendation", "comparison", "similarity"}

\* whether qdrant_executor searches for a plan
QdrantSearches(plan_obj) ==
    plan_obj.query_type \in {"recommendation", "comparison", "similarity"}

\* the results qdrant_executor may return for a plan; q is the raw query of the closure
qdrant_executor(plan_obj, q) ==
    IF QdrantSearches(plan_obj)
    THEN { PyList(r) : r \in get_products_qdrant_list(q, 5) }
    ELSE { PyList(<<>>) }

(***************************************************************************)
(* State                                                                   *)
(***************************************************************************)
VARIABLES
    query,            \* the text of the request being handled
    nwords,           \* fragments typed into the query so far
    caller,           \* "deep_agent_search", or "direct" for a caller of the planner's API
    pc,               \* the position of the request
    activate,         \* the result of should_activate_deep_agent
    query_type,       \* the result of classify_query, "" before it is called
    plan,             \* the QueryPlan of create_plan
    neo4j_tool,       \* execute_plan's neo4j_tool argument is not None
    qdrant_tool,      \* execute_plan's qdrant_tool argument is not None
    neo4j_result,     \* neo4j_result of execute_plan
    qdrant_result,    \* qdrant_result of execute_plan
    combined,         \* combined of execute_plan
    intent,           \* the query_type handed to format_results
    result,           \* the string returned
    exc,              \* the exception that left the call, "" if none
    calls,            \* the port calls made for the request, in order
    neo4j_instance,   \* _neo4j_tool_instance: 0 is None, else the number of the instance
    drivers,          \* the state of the driver of each Neo4jTool instance created
    threads           \* of each thread of the process: its position in a call of the
                      \* neo4j_tool module and the Neo4jTool instance it holds, 0 if none

vars == << query, nwords, caller, pc, activate, query_type, plan, neo4j_tool, qdrant_tool,
           neo4j_result, qdrant_result, combined, intent, result, exc, calls,
           neo4j_instance, drivers, threads >>

\* the variables of one request
request_vars == << activate, plan, neo4j_tool, qdrant_tool, neo4j_result, qdrant_result,
                   combined, intent, result, exc, calls >>

NoPlan == [ steps |-> <<>>, use_neo4j |-> FALSE, use_qdrant |-> FALSE,
            query_type |-> "", extracted_params |-> EmptyDict ]

\* the threads of the process that call the neo4j_tool module
MaxThreads == 2

Threads == 1..MaxThreads

\* no thread is in a call and none holds an instance
NoThreads == [t \in Threads |-> [pc |-> "idle", tool |-> 0]]

\* the values of the request variables before a request has set them
FreshRequest ==
    /\ activate = FALSE
    /\ plan = NoPlan
    /\ neo4j_tool = FALSE
    /\ qdrant_tool = FALSE
    /\ neo4j_result = PyList(<<>>)
    /\ qdrant_result = PyList(<<>>)
    /\ combined = PyList(<<>>)
    /\ intent = ""
    /\ result = ""
    /\ exc = ""
    /\ calls = <<>>

\* the locals of a call are gone when it is over
ResetRequest ==
    /\ activate' = FALSE
    /\ plan' = NoPlan
    /\ neo4j_tool' = FALSE
    /\ qdrant_tool' = FALSE
    /\ neo4j_result' = PyList(<<>>)
    /\ qdrant_result' = PyList(<<>>)
    /\ combined' = PyList(<<>>)
    /\ intent' = ""
    /\ result' = ""
    /\ exc' = ""
    /\ calls' = <<>>

(***************************************************************************)
(* The requests of the test corpora (test_integration.py, test_deep_agent.py)*)
(* and variations of them that resolve in the graph store                   *)
(***************************************************************************)
RequestCorpus ==
    { "pulseras de cuero",
      "similar al pulsera 9",
      "comparar cuarzo rosa vs negra",
      "más barato que el doble vuelta",
      "lo mejor para regalo de papá",
      "Comparar cuarzo rosa Air Zoom vs negra Ultraboost",
      "Alternativas más baratas que el pulsera 9",
      "similar a la pulsera",
      "más barato que la pulsera 9",
      "comparar pulsera 9 vs cuarzo",
      "lo mejor para pulseras" }

\* the driver states a get_neo4j_tool call leaves: a first call creates the instance
GetNeo4jTool ==
    IF neo4j_instance = 0
    THEN /\ drivers' = Append(drivers, "open")
         /\ neo4j_instance' = Len(drivers) + 1
    ELSE UNCHANGED << neo4j_instance, drivers >>

(***************************************************************************)
(* deep_agent_search and execute_plan, step by step                        *)
(***************************************************************************)
Init ==
    /\ query = ""
    /\ nwords = 0
    /\ caller = ""
    /\ pc = "idle"
    /\ query_type = ""
    /\ FreshRequest
    /\ neo4j_instance = 0
    /\ drivers = <<>>
    /\ threads = NoThreads

\* a request arrives: the agent calls deep_agent_search(q), or a caller uses the planner
Receive(q, c) ==
    /\ pc = "idle"
    /\ query' = q
    /\ caller' = c
    /\ pc' = "received"
    /\ UNCHANGED << nwords, query_type, request_vars, neo4j_instance, drivers, threads >>

\* deep_agent_search: should_activate = planner.should_activate_deep_agent(query)
CheckActivation ==
    /\ pc = "received"
    /\ caller = "deep_agent_search"
    /\ activate' = should_activate_deep_agent(query)
    /\ pc' = IF activate' THEN "activated" ELSE "not_activated"
    /\ UNCHANGED << query, nwords, query_type, caller, plan, neo4j_tool, qdrant_tool, neo4j_result,
                    qdrant_result, combined, intent, result, exc, calls,
                    neo4j_instance, drivers, threads >>

\* deep_agent_search: if not should_activate: return get_products_rag(query)
DirectSearch ==
    /\ pc = "not_activated"
    /\ calls' = Append(calls, <<"qdrant", "get_products_rag", <<query>>, 20>>)
    /\ \/ /\ result' \in get_products_rag(query)
          /\ pc' = "returned"
          /\ exc' = exc
       \/ /\ exc' = "ConnectionError"
          /\ pc' = "raised"
          /\ result' = result
    /\ UNCHANGED << query, nwords, query_type, caller, activate, plan, neo4j_tool, qdrant_tool,
                    neo4j_result, qdrant_result, combined, intent, neo4j_instance, drivers,
                    threads >>

\* deep_agent_search: plan = planner.create_plan(query), then execute_plan is entered with
\* both executors; a direct caller plans any query and passes the ports it has
CreatePlan ==
    /\ \/ pc = "activated"
       \/ pc = "received" /\ caller = "direct"
    /\ plan' = create_plan(query)
    /\ IF caller = "deep_agent_search"
       THEN neo4j_tool' = TRUE /\ qdrant_tool' = TRUE
       ELSE neo4j_tool' \in BOOLEAN /\ qdrant_tool' \in BOOLEAN
    /\ pc' = "planned"
    /\ UNCHANGED << query, nwords, query_type, caller, activate, neo4j_result, qdrant_result,
                    combined, intent, result, exc, calls, neo4j_instance, drivers,
                    threads >>

\* execute_plan: neo4j_result = neo4j_tool(plan) if plan.use_neo4j and neo4j_tool else []
CallNeo4j ==
    /\ pc = "planned"
    /\ IF plan.use_neo4j /\ neo4j_tool
       THEN /\ GetNeo4jTool
            /\ calls' = Append(calls, <<"neo4j">> \o Neo4jCall(plan))
            /\ \/ /\ neo4j_result' \in neo4j_executor(plan)
                  /\ pc' = "neo4j_done"
                  /\ exc' = exc
               \/ /\ exc' = "ServiceUnavailable"
                  /\ pc' = "raised"
                  /\ neo4j_result' = neo4j_result
       ELSE /\ neo4j_result' = PyList(<<>>)
            /\ pc' = "neo4j_done"
            /\ UNCHANGED << exc, calls, neo4j_instance, drivers >>
    /\ UNCHANGED << query, nwords, query_type, caller, activate, plan, neo4j_tool, qdrant_tool,
                    qdrant_result, combined, intent, result, threads >>

\* execute_plan: qdrant_result = qdrant_tool(plan) if plan.use_qdrant and qdrant_tool else []
CallQdrant ==
    /\ pc = "neo4j_done"
    /\ IF plan.use_qdrant /\ qdrant_tool
       THEN /\ calls' = IF QdrantSearches(plan)
                        THEN Append(calls, <<"qdrant", "get_products_qdrant_list", <<query>>, 5>>)
                        ELSE calls
            /\ \/ /\ qdrant_result' \in qdrant_executor(plan, query)
                  /\ pc' = "qdrant_done"
                  /\ exc' = exc
               \/ /\ QdrantSearches(plan)
                  /\ exc' = "ConnectionError"
                  /\ pc' = "raised"
                  /\ qdrant_result' = qdrant_result
       ELSE /\ qdrant_result' = PyList(<<>>)
            /\ pc' = "qdrant_done"
            /\ UNCHANGED << exc, calls >>
    /\ UNCHANGED << query, nwords, query_type, caller, activate, plan, neo4j_tool, qdrant_tool,
                    neo4j_result, combined, intent, result, neo4j_instance, drivers,
                    threads >>

\* execute_plan: combined = self.combine_results(neo4j_result, qdrant_result)
Combine ==
    /\ pc = "qdrant_done"
    /\ LET r == combine_results(neo4j_result, qdrant_result)
       IN  IF r.raised
           THEN exc' = r.exc /\ pc' = "raised" /\ combined' = combined
           ELSE exc' = exc /\ pc' = "combined" /\ combined' = r.value
    /\ UNCHANGED << query, nwords, query_type, caller, activate, plan, neo4j_tool, qdrant_tool,
                    neo4j_result, qdrant_result, intent, result, calls,
                    neo4j_instance, drivers, threads >>

\* execute_plan: return self.format_results(combined, plan.query_type)
Format ==
    /\ pc = "combined"
    /\ intent' = plan.query_type
    /\ LET r == format_results(combined, plan.query_type)
       IN  IF r.raised
           THEN exc' = r.exc /\ pc' = "raised" /\ result' = result
           ELSE exc' = exc /\ pc' = "returned" /\ result' = r.value
    /\ UNCHANGED << query, nwords, query_type, caller, activate, plan, neo4j_tool, qdrant_tool,
                    neo4j_result, qdrant_result, combined, calls,
                    neo4j_instance, drivers, threads >>

\* the call is over (a string was returned, or an exception left it); the next request
\* starts from fresh request variables; the singleton of the process stays
Finish ==
    /\ pc \in {"returned", "raised"}
    /\ pc' = "idle"
    /\ query' = ""
    /\ caller' = ""
    /\ ResetRequest
    /\ UNCHANGED << nwords, query_type, neo4j_instance, drivers, threads >>

Next ==
    \/ \E q \in RequestCorpus, c \in {"deep_agent_search", "direct"} : Receive(q, c)
    \/ CheckActivation
    \/ DirectSearch
    \/ CreatePlan
    \/ CallNeo4j
    \/ CallQdrant
    \/ Combine
    \/ Format
    \/ Finish

Spec == Init /\ [][Next]_vars

(***************************************************************************)
(* The planner on its own: queries typed fragment by fragment, then        *)
(* should_activate_deep_agent, classify_query and create_plan of the query *)
(* (test_deep_agent_planner, test_planner)                                 *)
(***************************************************************************)
\* the fragments a query is made of, separated by one space
Fragments ==
    { "comparar", "vs negra", "similar a", "más barato que", "lo mejor para", "la",
      "pulsera 9", "Alternativas más baratas que", "hasta 50" }

\* the number of fragments of a query
MaxFragments == 3

InitPlanner ==
    /\ query = ""
    /\ nwords = 0
    /\ caller = "direct"
    /\ pc = "typing"
    /\ query_type = ""
    /\ FreshRequest
    /\ neo4j_instance = 0
    /\ drivers = <<>>
    /\ threads = NoThreads

TypeFragment(w) ==
    /\ pc = "typing"
    /\ nwords < MaxFragments
    /\ query' = IF query = "" THEN w ELSE query \o " " \o w
    /\ nwords' = nwords + 1
    /\ UNCHANGED << caller, pc, query_type, request_vars, neo4j_instance, drivers,
                    threads >>

\* activates = planner.should_activate_deep_agent(query);
\* query_type = planner.classify_query(query); plan = planner.create_plan(query)
PlanQuery ==
    /\ pc = "typing"
    /\ activate' = should_activate_deep_agent(query)
    /\ query_type' = classify_query(query)
    /\ plan' = create_plan(query)
    /\ pc' = "classified"
    /\ UNCHANGED << query, nwords, caller, neo4j_tool, qdrant_tool, neo4j_result,
                    qdrant_result, combined, intent, result, exc, calls,
                    neo4j_instance, drivers, threads >>

NextPlanner ==
    \/ \E w \in Fragments : TypeFragment(w)
    \/ PlanQuery

SpecPlanner == InitPlanner /\ [][NextPlanner]_vars

(***************************************************************************)
(* combine_results and format_results as functions of their arguments: the *)
(* two result lists are built record by record, combined, and formatted    *)
(* for an intent; a ComparisonResult of compare_products is formatted too   *)
(***************************************************************************)
\* the longest neo4j_results built
MaxGraph == 11

\* the longest qdrant_results built
MaxVector == 4

\* the records of the two lists that do not carry an id of their own
MaxSpecial == 2

\* the id of the n-th record built, when it gets an id of its own
FreshId(n) == ToString(n)

\* a row of the graph port, the n-th record built; p.id of a node without the
\* property is None, which the model writes as a row without the key
GraphRecord(n, id) ==
    Row([id |-> id, name |-> "Pulsera " \o ToString(n), price |-> 10 * n,
         stock_status |-> "instock"])

GraphRecordNoId(n) ==
    [name |-> "Pulsera " \o ToString(n), price |-> 10 * n, stock_status |-> "instock"]

\* a record of the vector port, the n-th record built, of a document with the sku
\* in its metadata
VectorRecord(n, sku) ==
    QdrantRecord([page_content |-> "Pulsera " \o ToString(n),
                  metadata |-> [sku |-> sku, price |-> 10 * n,
                                stock_status |-> "instock"]])

\* a record of the vector port of a document without sku: meta.get("sku", "")
VectorRecordNoSku(n) ==
    QdrantRecord([page_content |-> "Pulsera " \o ToString(n),
                  metadata |-> [price |-> 10 * n, stock_status |-> "instock"]])

\* the records built so far: neo4j_results + qdrant_results
Built == neo4j_result.v \o qdrant_result.v

\* the records built that do not carry an id of their own
Specials ==
    { i \in 1..Len(Built) : ~("id" \in DOMAIN Built[i] /\ Built[i]["id"] = FreshId(i)) }

\* the ids a new record can repeat: the id of the first record built
Repeatable == IF Len(Built) > 0 /\ HasId(Built[1]) THEN {Built[1]["id"]} ELSE {}

InitResults ==
    /\ query = ""
    /\ nwords = 0
    /\ caller = "direct"
    /\ pc = "build"
    /\ query_type = ""
    /\ FreshRequest
    /\ neo4j_instance = 0
    /\ drivers = <<>>
    /\ threads = NoThreads

\* one more record in neo4j_results: with an id of its own, with the id of an
\* earlier record, or without id
AddGraphRecord ==
    /\ pc = "build"
    /\ Len(qdrant_result.v) = 0
    /\ Len(neo4j_result.v) < MaxGraph
    /\ LET n == Len(Built) + 1
       IN  \E r \in {GraphRecord(n, FreshId(n))}
                   \cup (IF Cardinality(Specials) < MaxSpecial
                         THEN {GraphRecordNoId(n)}
                                 \cup {GraphRecord(n, id) : id \in Repeatable}
                         ELSE {}) :
               neo4j_result' = PyList(Append(neo4j_result.v, r))
    /\ UNCHANGED << query, nwords, caller, pc, activate, query_type, plan, neo4j_tool,
                    qdrant_tool, qdrant_result, combined, intent, result, exc, calls,
                    neo4j_instance, drivers, threads >>

\* one more record in qdrant_results: with a sku of its own, with the sku of an
\* earlier record, or of a document without sku
AddVectorRecord ==
    /\ pc = "build"
    /\ Len(qdrant_result.v) < MaxVector
    /\ LET n == Len(Built) + 1
       IN  \E r \in {VectorRecord(n, FreshId(n))}
                   \cup (IF Cardinality(Specials) < MaxSpecial
                         THEN {VectorRecordNoSku(n)}
                                 \cup {VectorRecord(n, id) : id \in Repeatable}
                         ELSE {}) :
               qdrant_result' = PyList(Append(qdrant_result.v, r))
    /\ UNCHANGED << query, nwords, caller, pc, activate, query_type, plan, neo4j_tool,
                    qdrant_tool, neo4j_result, combined, intent, result, exc, calls,
                    neo4j_instance, drivers, threads >>

\* combined = combine_results(neo4j_results, qdrant_results)
CombineRecords ==
    /\ pc = "build"
    /\ LET r == combine_results(neo4j_result, qdrant_result)
       IN  IF r.raised
           THEN exc' = r.exc /\ pc' = "raised" /\ combined' = combined
           ELSE exc' = exc /\ pc' = "combined" /\ combined' = r.value
    /\ UNCHANGED << query, nwords, caller, activate, query_type, plan, neo4j_tool,
                    qdrant_tool, neo4j_result, qdrant_result, intent, result, calls,
                    neo4j_instance, drivers, threads >>

\* the product names compare_products is called with
ComparedNames == {"cuarzo rosa", "negra", "pulsera 9", "doble vuelta", "zafiro"}

\* neo4j_executor for a comparison plan with these names as parameters: the result
\* to format is the ComparisonResult of compare_products
TakeComparison(product1_name, product2_name) ==
    /\ pc = "build"
    /\ Len(Built) = 0
    /\ plan' = [NoPlan EXCEPT !.query_type = "comparison",
                              !.use_neo4j = TRUE,
                              !.use_qdrant = TRUE,
                              !.extracted_params = ("product1" :> product1_name)
                                                      @@ ("product2" :> product2_name)]
    /\ \E r \in compare_products_run(product1_name, product2_name) :
           /\ combined' = PyDict(r.value)
           /\ calls' = r.cypher
    /\ pc' = "combined"
    /\ UNCHANGED << query, nwords, caller, activate, query_type, neo4j_tool,
                    qdrant_tool, neo4j_result, qdrant_result, intent, result, exc,
                    neo4j_instance, drivers, threads >>

\* the query_type arguments of format_results: the five intents and the default
FormatIntents ==
    {"simple", "comparison", "similarity", "price_comparison", "recommendation", "general"}

\* format_results(combined, i)
FormatAs(i) ==
    /\ pc = "combined"
    /\ intent' = i
    /\ LET r == format_results(combined, i)
       IN  IF r.raised
           THEN exc' = r.exc /\ pc' = "raised" /\ result' = result
           ELSE exc' = exc /\ pc' = "returned" /\ result' = r.value
    /\ UNCHANGED << query, nwords, caller, activate, query_type, plan, neo4j_tool,
                    qdrant_tool, neo4j_result, qdrant_result, combined, calls,
                    neo4j_instance, drivers, threads >>

NextResults ==
    \/ AddGraphRecord
    \/ AddVectorRecord
    \/ CombineRecords
    \/ \E n1 \in ComparedNames, n2 \in ComparedNames : TakeComparison(n1, n2)
    \/ \E i \in FormatIntents : FormatAs(i)

SpecResults == InitResults /\ [][NextResults]_vars

(***************************************************************************)
(* The operations of Neo4jTool called on their own, as the tests of         *)
(* test_integration.py call them, for names and limits of a small set       *)
(***************************************************************************)
\* the largest limit passed
MaxLimit == 3

\* the names and categories asked for: of one product (in any case), of several, of
\* a product out of stock, of no product, of one category, of several
GraphArgs ==
    {"pulsera 9", "Cuarzo Rosa", "negra", "pulsera", "doble vuelta", "zafiro",
     "pulseras", "para", "hombres"}

InitGraph ==
    /\ query = ""
    /\ nwords = 0
    /\ caller = "direct"
    /\ pc = "graph_ready"
    /\ query_type = ""
    /\ FreshRequest
    /\ neo4j_instance = 0
    /\ drivers = <<>>
    /\ threads = NoThreads

\* neo4j_tool.find_similar_products(name, limit): the call and its result
FindSimilar(name, limit) ==
    /\ pc = "graph_ready"
    /\ calls' = << <<"neo4j", "find_similar_products", <<name>>, limit>> >>
    /\ \E rows \in find_similar_products(name, limit) : neo4j_result' = PyList(rows)
    /\ pc' = "graph_done"
    /\ UNCHANGED << query, nwords, caller, activate, query_type, plan, neo4j_tool,
                    qdrant_tool, qdrant_result, combined, intent, result, exc,
                    neo4j_instance, drivers, threads >>

\* neo4j_tool.find_cheaper_alternatives(name, limit)
FindCheaper(name, limit) ==
    /\ pc = "graph_ready"
    /\ calls' = << <<"neo4j", "find_cheaper_alternatives", <<name>>, limit>> >>
    /\ \E rows \in find_cheaper_alternatives(name, limit) : neo4j_result' = PyList(rows)
    /\ pc' = "graph_done"
    /\ UNCHANGED << query, nwords, caller, activate, query_type, plan, neo4j_tool,
                    qdrant_tool, qdrant_result, combined, intent, result, exc,
                    neo4j_instance, drivers, threads >>

\* neo4j_tool.find_by_category(category, limit)
FindByCategory(category, limit) ==
    /\ pc = "graph_ready"
    /\ calls' = << <<"neo4j", "find_by_category", <<category>>, limit>> >>
    /\ \E rows \in find_by_category(category, limit) : neo4j_result' = PyList(rows)
    /\ pc' = "graph_done"
    /\ UNCHANGED << query, nwords, caller, activate, query_type, plan, neo4j_tool,
                    qdrant_tool, qdrant_result, combined, intent, result, exc,
                    neo4j_instance, drivers, threads >>

\* the caller is done with the result
GraphDone ==
    /\ pc = "graph_done"
    /\ calls' = <<>>
    /\ neo4j_result' = PyList(<<>>)
    /\ pc' = "graph_ready"
    /\ UNCHANGED << query, nwords, caller, activate, query_type, plan, neo4j_tool,
                    qdrant_tool, qdrant_result, combined, intent, result, exc,
                    neo4j_instance, drivers, threads >>

NextGraph ==
    \/ \E name \in GraphArgs, limit \in 1..MaxLimit : FindSimilar(name, limit)
    \/ \E name \in GraphArgs, limit \in 1..MaxLimit : FindCheaper(name, limit)
    \/ \E name \in GraphArgs, limit \in 1..MaxLimit : FindByCategory(name, limit)
    \/ GraphDone

SpecGraph == InitGraph /\ [][NextGraph]_vars

(***************************************************************************)
(* extract_parameters called alone, with a query and a query type          *)
(***************************************************************************)
\* the start of a query: a phrase of each pattern group, or none, and a comparison
\* whose first side is left out
ExtractHeads ==
    {"", "similar a", "Alternativas al", "más barato que", "alternativas a",
     "lo mejor para", "comparar cuero vs", "comparar   vs"}

\* what follows the phrase: no determiner, one, one in capitals, two, one followed
\* by two spaces, a word that only starts like one
ExtractArticles == {"", "la", "Los", "la el", "unas ", "lapis"}

\* the product named
ExtractNouns == {"pulsera 9", "doble la vuelta"}

\* the end of the query: no ceiling, a ceiling, one with "de", ones with the
\* currency marker, a size
ExtractTails ==
    {"", "hasta 50", "menos de 30", "menos de USD 50", "hasta usd 7", "talla 7"}

Glue(a, b) == IF a = "" THEN b ELSE IF b = "" THEN a ELSE a \o " " \o b

ExtractQueries ==
    { Glue(Glue(h, a), Glue(n, t)) :
        <<h, a, n, t>> \in ExtractHeads \X ExtractArticles \X ExtractNouns \X ExtractTails }

ExtractTypes == {"comparison", "similarity", "price_comparison", "recommendation", "simple"}

InitExtract ==
    /\ query = ""
    /\ nwords = 0
    /\ caller = "direct"
    /\ pc = "extract_ready"
    /\ query_type = ""
    /\ FreshRequest
    /\ neo4j_instance = 0
    /\ drivers = <<>>
    /\ threads = NoThreads

\* planner.extract_parameters(q, t): the dictionary returned
ExtractParameters(q, t) ==
    /\ pc = "extract_ready"
    /\ query' = q
    /\ query_type' = t
    /\ plan' = [NoPlan EXCEPT !.query_type = t,
                              !.extracted_params = extract_parameters(q, t)]
    /\ pc' = "extracted"
    /\ UNCHANGED << nwords, caller, activate, neo4j_tool, qdrant_tool, neo4j_result,
                    qdrant_result, combined, intent, result, exc, calls,
                    neo4j_instance, drivers, threads >>

\* the caller is done with the dictionary
ExtractDone ==
    /\ pc = "extracted"
    /\ query' = ""
    /\ query_type' = ""
    /\ plan' = NoPlan
    /\ pc' = "extract_ready"
    /\ UNCHANGED << nwords, caller, activate, neo4j_tool, qdrant_tool, neo4j_result,
                    qdrant_result, combined, intent, result, exc, calls,
                    neo4j_instance, drivers, threads >>

NextExtract ==
    \/ \E q \in ExtractQueries, t \in ExtractTypes : ExtractParameters(q, t)
    \/ ExtractDone

SpecExtract == InitExtract /\ [][NextExtract]_vars

(***************************************************************************)
(* execute_plan called with a plan whose steps the caller has set           *)
(***************************************************************************)
\* the step lists a caller puts in a QueryPlan: none, one of its own
StepLists == { <<>>, <<"1. Consultar el catálogo">> }

InitSteps ==
    /\ query = ""
    /\ nwords = 0
    /\ caller = ""
    /\ pc = "idle"
    /\ query_type = ""
    /\ FreshRequest
    /\ neo4j_instance = 0
    /\ drivers = <<>>
    /\ threads = NoThreads

\* plan = planner.create_plan(q); plan.steps = steps; execute_plan(plan, ...) is entered
\* with the ports the caller has
PlanWithSteps(q, steps) ==
    /\ pc = "idle"
    /\ query' = q
    /\ caller' = "direct"
    /\ plan' = [create_plan(q) EXCEPT !.steps = steps]
    /\ neo4j_tool' \in BOOLEAN
    /\ qdrant_tool' \in BOOLEAN
    /\ pc' = "planned"
    /\ UNCHANGED << nwords, query_type, activate, neo4j_result, qdrant_result, combined,
                    intent, result, exc, calls, neo4j_instance, drivers, threads >>

NextSteps ==
    \/ \E q \in RequestCorpus :
          \E steps \in StepLists \cup {create_plan(q).steps} : PlanWithSteps(q, steps)
    \/ CallNeo4j
    \/ CallQdrant
    \/ Combine
    \/ Format
    \/ Finish

SpecSteps == InitSteps /\ [][NextSteps]_vars

(***************************************************************************)
(* get_neo4j_tool, Neo4jTool.close and reset_neo4j_tool, one call at a time *)
(***************************************************************************)
\* the Neo4jTool instances one process constructs
MaxInstances == 3

\* self.driver.close() of instance i
CloseDriver(ds, i) == [ds EXCEPT ![i] = "closed"]

\* a variant of close that resets nothing
InstanceKeptAfterClose(instance, closed) == instance

\* close(): global _neo4j_tool_instance; _neo4j_tool_instance = None, whichever
\* instance is closed
InstanceAfterClose(instance, closed) == 0

InitSingleton ==
    /\ query = ""
    /\ nwords = 0
    /\ caller = "direct"
    /\ pc = "started"
    /\ query_type = ""
    /\ FreshRequest
    /\ neo4j_instance = 0
    /\ drivers = <<>>
    /\ threads = NoThreads

\* neo4j_tool = get_neo4j_tool(): thread t holds the instance returned
GetTool(t) ==
    /\ pc # "shutdown"
    /\ neo4j_instance = 0 => Len(drivers) < MaxInstances
    /\ GetNeo4jTool
    /\ threads' = [threads EXCEPT ![t].tool = neo4j_instance']
    /\ pc' = "got"
    /\ UNCHANGED << query, nwords, caller, query_type, request_vars >>

\* neo4j_tool.close() on the instance thread t holds
CloseTool(t) ==
    /\ pc # "shutdown"
    /\ threads[t].tool # 0
    /\ drivers' = CloseDriver(drivers, threads[t].tool)
    /\ neo4j_instance' = InstanceAfterClose(neo4j_instance, threads[t].tool)
    /\ pc' = "closed"
    /\ UNCHANGED << query, nwords, caller, query_type, request_vars, threads >>

\* the function of thread t that called get_neo4j_tool returns: its local variable
\* neo4j_tool is gone
ReturnTool(t) ==
    /\ pc # "shutdown"
    /\ threads[t].tool # 0
    /\ threads' = [threads EXCEPT ![t].tool = 0]
    /\ pc' = "returned"
    /\ UNCHANGED << query, nwords, caller, query_type, request_vars, neo4j_instance,
                    drivers >>

\* reset_neo4j_tool(): the current instance, if any, is closed and forgotten
ResetTool ==
    /\ pc # "shutdown"
    /\ IF neo4j_instance # 0
       THEN drivers' = CloseDriver(drivers, neo4j_instance)
       ELSE drivers' = drivers
    /\ neo4j_instance' = 0
    /\ pc' = "reset"
    /\ UNCHANGED << query, nwords, caller, query_type, request_vars, threads >>

\* the reset_neo4j_tool() at the end of run_all_tests, after which nothing is called
Shutdown ==
    /\ pc # "shutdown"
    /\ IF neo4j_instance # 0
       THEN drivers' = CloseDriver(drivers, neo4j_instance)
       ELSE drivers' = drivers
    /\ neo4j_instance' = 0
    /\ pc' = "shutdown"
    /\ UNCHANGED << query, nwords, caller, query_type, request_vars, threads >>

NextSingleton ==
    \/ \E t \in Threads : GetTool(t)
    \/ \E t \in Threads : CloseTool(t)
    \/ \E t \in Threads : ReturnTool(t)
    \/ ResetTool
    \/ Shutdown

SpecSingleton == InitSingleton /\ [][NextSingleton]_vars

(***************************************************************************)
(* get_neo4j_tool called by the requests of several threads, statement by  *)
(* statement: the endpoint is a def, so the server runs requests in the    *)
(* threads of its pool, and a thread switch may fall between any two       *)
(* statements                                                              *)
(***************************************************************************)
InitConcurrent ==
    /\ query = ""
    /\ nwords = 0
    /\ caller = "deep_agent_search"
    /\ pc = "serving"
    /\ query_type = ""
    /\ FreshRequest
    /\ neo4j_instance = 0
    /\ drivers = <<>>
    /\ threads = NoThreads

\* if _neo4j_tool_instance is None: the request of thread t reads the global
CheckInstance(t) ==
    /\ threads[t].pc = "idle"
    /\ threads' = [threads EXCEPT ![t].pc = IF neo4j_instance = 0 THEN "saw_none"
                                           ELSE "saw_instance"]
    /\ UNCHANGED << query, nwords, caller, pc, query_type, request_vars, neo4j_instance,
                    drivers >>

\* Neo4jTool(): the right-hand side of the assignment opens a driver
ConstructTool(t) ==
    /\ threads[t].pc = "saw_none"
    /\ Len(drivers) < MaxInstances
    /\ drivers' = Append(drivers, "open")
    /\ threads' = [threads EXCEPT ![t] = [pc |-> "constructed", tool |-> Len(drivers) + 1]]
    /\ UNCHANGED << query, nwords, caller, pc, query_type, request_vars, neo4j_instance >>

\* _neo4j_tool_instance = <the instance constructed>
AssignInstance(t) ==
    /\ threads[t].pc = "constructed"
    /\ neo4j_instance' = threads[t].tool
    /\ threads' = [threads EXCEPT ![t].pc = "saw_instance"]
    /\ UNCHANGED << query, nwords, caller, pc, query_type, request_vars, drivers >>

\* return _neo4j_tool_instance: the global is read again, and neo4j_executor holds it
ReturnInstance(t) ==
    /\ threads[t].pc = "saw_instance"
    /\ threads' = [threads EXCEPT ![t] = [pc |-> "holding", tool |-> neo4j_instance]]
    /\ UNCHANGED << query, nwords, caller, pc, query_type, request_vars, neo4j_instance,
                    drivers >>

\* neo4j_executor returns and the request of thread t is over; the thread takes the
\* next request
RequestDone(t) ==
    /\ threads[t].pc = "holding"
    /\ threads' = [threads EXCEPT ![t] = [pc |-> "idle", tool |-> 0]]
    /\ UNCHANGED << query, nwords, caller, pc, query_type, request_vars, neo4j_instance,
                    drivers >>

NextConcurrent ==
    \/ \E t \in Threads : CheckInstance(t)
    \/ \E t \in Threads : ConstructTool(t)
    \/ \E t \in Threads : AssignInstance(t)
    \/ \E t \in Threads : ReturnInstance(t)
    \/ \E t \in Threads : RequestDone(t)

SpecConcurrent == InitConcurrent /\ [][NextConcurrent]_vars

(***************************************************************************)
(* Claims                                                                  *)
(***************************************************************************)
Intents == {"simple", "comparison", "similarity", "price_comparison", "recommendation"}

\* the pattern groups in the order the specification gives them, with their intents
PatternGroups ==
    << COMPARISON_PATTERNS, SIMILARITY_PATTERNS, PRICE_PATTERNS, RECOMMENDATION_PATTERNS >>

GroupIntents == << "comparison", "similarity", "price_comparison", "recommendation" >>

\* the groups of which some pattern is found in the lower-cased query
MatchingGroups(q) ==
    LET s == Lower(q)
    IN  { k \in 1..Len(PatternGroups) :
            \E i \in 1..Len(PatternGroups[k]) : Search(PatternGroups[k][i], s).ok }

\* a port call that failed: the exceptions of the graph driver and of the vector client
PortFailures == {"ServiceUnavailable", "ConnectionError"}

\* C1: for every query, should_activate_deep_agent is true if and only if
\* classify_query is not 'simple'
C1_ActivationIffNotSimple ==
    pc = "classified" => (activate <=> query_type # "simple")

\* a query that activates and one fragment of which is the price phrase
C1_Witness ==
    pc = "classified" /\ activate /\ query_type = "price_comparison"

\* C2: classify_query gives the intent of the earliest group, in the order comparison,
\* similarity, price_comparison, recommendation, of which a pattern matches, and
\* 'simple' when no pattern matches
C2_EarliestGroupWins ==
    pc = "classified" =>
        LET M == MatchingGroups(query)
        IN  query_type = IF M = {} THEN "simple"
                         ELSE GroupIntents[CHOOSE k \in M : \A j \in M : k <= j]

\* a query that matches the similarity and the price groups is a similarity query
C2_Witness ==
    /\ pc = "classified"
    /\ {2, 3} \subseteq MatchingGroups(query)
    /\ query_type = "similarity"

\* C3: every plan of create_plan has use_neo4j false exactly for 'simple', use_qdrant
\* true for simple, comparison and recommendation and false for similarity and
\* price_comparison, and one of the five intents as its query_type
C3_PlanFlags ==
    pc = "classified" =>
        /\ plan.query_type \in Intents
        /\ plan.use_neo4j <=> plan.query_type # "simple"
        /\ plan.use_qdrant <=> plan.query_type \in {"simple", "comparison", "recommendation"}

\* a similarity plan: the graph alone
C3_Witness ==
    /\ pc = "classified"
    /\ plan.query_type = "similarity"
    /\ plan.use_neo4j
    /\ ~plan.use_qdrant

\* C4: a comparison plan executed with a graph port: the result of compare_products
\* is rendered by format_results (the template, or the error message) and returned
C4_ComparisonRendered ==
    ( /\ pc \in {"returned", "raised"}
      /\ plan.query_type = "comparison"
      /\ neo4j_tool
      /\ neo4j_result.type = "dict"
      /\ exc \notin PortFailures )
    => /\ pc = "returned"
       /\ result = IF "error" \in DOMAIN neo4j_result.v
                   THEN neo4j_result.v["error"]
                   ELSE FormatComparison(neo4j_result.v)

\* C5: a failed port call never leaves execute_plan or deep_agent_search
C5_PortFailureContained ==
    ~(pc = "raised" /\ exc \in PortFailures)

\* C6: with a port missing, execute_plan returns a string without raising (a failure
\* of the port that is present aside), for every plan
C6_MissingPortNoRaise ==
    ( /\ pc = "raised"
      /\ plan # NoPlan
      /\ ~neo4j_tool \/ ~qdrant_tool )
    => exc \in PortFailures

\* the record carries an id that is not empty
Identified(r) == "id" \in DOMAIN r /\ r["id"] # ""

\* the record carries an id, empty or not
Keyed(r) == "id" \in DOMAIN r

RECURSIVE IsSubseqFrom(_, _, _, _)
\* a[i..] is a subsequence of b[j..]
IsSubseqFrom(a, b, i, j) ==
    IF i > Len(a) THEN TRUE
    ELSE IF j > Len(b) THEN FALSE
    ELSE IF a[i] = b[j] THEN IsSubseqFrom(a, b, i + 1, j + 1)
    ELSE IsSubseqFrom(a, b, i, j + 1)

\* the positions of seq that hold the first record of an id, among the records Ok
FirstPositions(seq, Ok(_)) ==
    { i \in 1..Len(seq) :
        /\ Ok(seq[i])
        /\ \A j \in 1..(i - 1) : ~(Ok(seq[j]) /\ seq[j]["id"] = seq[i]["id"]) }

\* out holds, in order, the records of seq at the first n positions of P
IsPrefixOfPositions(out, seq, P, n) ==
    /\ Len(out) = n
    /\ \A k \in 1..n :
          \E i \in P : /\ Cardinality({j \in P : j <= i}) = k
                       /\ out[k] = seq[i]

\* combine_results was called on two lists and returned
Combined == pc = "combined" /\ combined.type = "list"

\* C7: combine_results(g, v) is a subsequence of g followed by v, no two of its
\* records share an id, and the record kept for an id is the first one of that id
C7_FirstOccurrenceKept ==
    Combined =>
        LET out == combined.v
        IN  /\ IsSubseqFrom(out, Built, 1, 1)
            /\ \A j, k \in 1..Len(out) :
                  (j < k /\ Keyed(out[j]) /\ Keyed(out[k])) => out[j]["id"] # out[k]["id"]
            /\ \A k \in 1..Len(out) :
                  Keyed(out[k]) =>
                      \E i \in FirstPositions(Built, Keyed) : out[k] = Built[i]

\* a vector record repeats the id of a graph record, and the graph record is kept
C7_Witness ==
    /\ Combined
    /\ \E i \in 1..Len(neo4j_result.v), j \in 1..Len(qdrant_result.v) :
          /\ Identified(neo4j_result.v[i])
          /\ Keyed(qdrant_result.v[j])
          /\ neo4j_result.v[i]["id"] = qdrant_result.v[j]["id"]
          /\ \E k \in 1..Len(combined.v) : combined.v[k] = neo4j_result.v[i]

\* C8 as stated: a record whose id is empty or absent is kept (for inputs of at most
\* 10 records, where the cap does not apply)
C8_IdlessKept ==
    (Combined /\ Len(Built) <= TopN) =>
        \A i \in 1..Len(Built) :
            ~Identified(Built[i]) => \E k \in 1..Len(combined.v) : combined.v[k] = Built[i]

\* C8: a record whose id is empty or absent is never in the result of
\* combine_results: every record of the result carries an id that is not empty
C8_IdlessDropped ==
    Combined => \A k \in 1..Len(combined.v) : Identified(combined.v[k])

\* the vector port returned a record with the default id '' and the lists were combined
C8_Witness ==
    /\ Combined
    /\ \E j \in 1..Len(qdrant_result.v) :
          Keyed(qdrant_result.v[j]) /\ qdrant_result.v[j]["id"] = ""
    /\ Len(combined.v) = Len(Built) - 1

\* C9 as stated: at most 10 records, and with more than 10 distinct ids in the inputs
\* exactly the first 10 records of distinct id of the concatenation
C9_FirstTenDistinct ==
    Combined =>
        LET P == FirstPositions(Built, Keyed)
        IN  /\ Len(combined.v) <= TopN
            /\ Cardinality(P) > TopN => IsPrefixOfPositions(combined.v, Built, P, TopN)

\* C9: at most 10 records, and with more than 10 distinct non-empty ids in the inputs
\* exactly the first 10 records of distinct non-empty id of the concatenation, the
\* graph records before the vector records
C9_FirstTenIdentified ==
    Combined =>
        LET P == FirstPositions(Built, Identified)
        IN  /\ Len(combined.v) <= TopN
            /\ Cardinality(P) > TopN => IsPrefixOfPositions(combined.v, Built, P, TopN)

\* the lists hold more than 10 distinct ids, and the result is cut to 10 with
\* records of both lists in it
C9_Witness ==
    /\ Combined
    /\ Cardinality(FirstPositions(Built, Identified)) > TopN
    /\ Len(combined.v) = TopN
    /\ \E k \in 1..TopN : \E j \in 1..Len(qdrant_result.v) :
          combined.v[k] = qdrant_result.v[j]

\* C10: format_results returns a string and does not raise, for every result and
\* every intent
C10_FormatNeverRaises ==
    intent # "" => (pc # "raised" /\ exc = "")

\* C11: format_results of an empty list returns the fixed no-results message,
\* whatever the intent
C11_EmptyGivesNoResultsMessage ==
    (intent # "" /\ combined = PyList(<<>>)) =>
        /\ pc = "returned"
        /\ result = "No se encontraron productos que cumplan los criterios."

\* the empty list formatted for the comparison intent
C11_Witness ==
    /\ pc = "returned"
    /\ combined = PyList(<<>>)
    /\ intent = "comparison"
    /\ result = "No se encontraron productos que cumplan los criterios."

\* some product in stock has the name as a part of its name, whatever the case
Resolves(name) ==
    \E p \in GraphProducts :
        p.stock_status = "instock" /\ Contains(Lower(p.name), Lower(name))

\* compare_products was called with the names of the plan and returned
Compared == pc \in {"combined", "returned", "raised"} /\ combined.type = "dict"

\* C12: with a name that does not resolve, compare_products returns the error
\* variant, its message contains both names, no category query is issued, and
\* format_results returns the message verbatim for any intent
C12_UnresolvedGivesError ==
    LET n1 == plan.extracted_params["product1"]
        n2 == plan.extracted_params["product2"]
    IN  (Compared /\ (~Resolves(n1) \/ ~Resolves(n2))) =>
            /\ DOMAIN combined.v = {"error"}
            /\ Contains(combined.v["error"], n1)
            /\ Contains(combined.v["error"], n2)
            /\ \A k \in 1..Len(calls) : calls[k][1] # "categories"
            /\ pc # "raised"
            /\ pc = "returned" => result = combined.v["error"]

\* the first name resolves and the second does not, formatted for an intent other
\* than comparison
C12_Witness ==
    /\ Compared
    /\ pc = "returned"
    /\ intent = "similarity"
    /\ Resolves(plan.extracted_params["product1"])
    /\ ~Resolves(plan.extracted_params["product2"])
    /\ result = combined.v["error"]

\* compare_products returned the structured variant
Structured == Compared /\ "product1" \in DOMAIN combined.v

\* the side of a comparison is a product in stock that the name resolves to
IsProductOf(side, name) ==
    \E p \in GraphProducts :
        /\ p.stock_status = "instock"
        /\ Contains(Lower(p.name), Lower(name))
        /\ side.name = p.name
        /\ side.price = p.price

\* C13: when both names resolve, price_difference is the absolute difference of
\* the two prices and cheaper is the name of the product of strictly lower price,
\* in whichever position it was given
C13_DifferenceAndCheaper ==
    Structured =>
        LET v == combined.v
            a == v.product1.price
            b == v.product2.price
        IN  /\ IsProductOf(v.product1, plan.extracted_params["product1"])
            /\ IsProductOf(v.product2, plan.extracted_params["product2"])
            /\ v.price_difference >= 0
            /\ v.price_difference \in {a - b, b - a}
            /\ a < b => v.cheaper = v.product1.name
            /\ b < a => v.cheaper = v.product2.name

\* the product of lower price given first: 80 against 100
C13_Witness ==
    /\ Structured
    /\ combined.v.product1.price = 80
    /\ combined.v.product2.price = 100
    /\ combined.v.price_difference = 20
    /\ combined.v.cheaper = combined.v.product1.name

\* C14: when the two products have the same price, cheaper is the name of the
\* first product
C14_TieGivesFirst ==
    (Structured /\ combined.v.product1.price = combined.v.product2.price) =>
        combined.v.cheaper = combined.v.product1.name

\* the graph operation op was called and has returned
Called(op) == pc = "graph_done" /\ calls[1][2] = op

\* C15: find_cheaper_alternatives returns the empty list, without error, for a name
\* that does not resolve; otherwise in-stock products of a price strictly below the
\* price of the reference, in ascending order of price, at most limit of them
C15_CheaperAlternatives ==
    Called("find_cheaper_alternatives") =>
        LET name == calls[1][3][1]
            limit == calls[1][4]
            rows == neo4j_result.v
        IN  /\ exc = ""
            /\ ~Resolves(name) => rows = <<>>
            /\ Resolves(name) =>
                  /\ Len(rows) <= limit
                  /\ \A i, j \in 1..Len(rows) : i < j => rows[i].price <= rows[j].price
                  /\ \E reference \in GraphProducts :
                        /\ reference.stock_status = "instock"
                        /\ Contains(Lower(reference.name), Lower(name))
                        /\ \A i \in 1..Len(rows) :
                              /\ rows[i].price < reference.price
                              /\ rows[i].stock_status = "instock"
                              /\ rows[i].id # reference.id
                              /\ \E p \in GraphProducts :
                                    /\ p.id = rows[i].id
                                    /\ p.price = rows[i].price
                                    /\ p.stock_status = "instock"

\* more products are cheaper than the reference than the limit lets through
C15_Witness ==
    /\ Called("find_cheaper_alternatives")
    /\ calls[1][3][1] = "pulsera 9"
    /\ calls[1][4] = 1
    /\ Len(neo4j_result.v) = 1
    /\ neo4j_result.v[1].price = 80

\* C16: the query of the corpus that asks for cheaper alternatives to a product is
\* a price_comparison query, its plan uses the graph and not the vector store, and
\* its execution calls find_cheaper_alternatives of the graph port and nothing else
C16_CheaperAlternativesQuery ==
    ( /\ query = "Alternativas más baratas que el pulsera 9"
      /\ caller = "deep_agent_search"
      /\ pc \in {"returned", "raised"} )
    => /\ plan.query_type = "price_comparison"
       /\ plan.use_neo4j
       /\ ~plan.use_qdrant
       /\ Len(calls) = 1
       /\ calls[1][1] = "neo4j"
       /\ calls[1][2] = "find_cheaper_alternatives"

\* execute_plan is past its two port calls for the plan
Executed ==
    /\ plan # NoPlan
    /\ pc \in {"qdrant_done", "combined", "returned"} \/ (pc = "raised" /\ exc = "TypeError")

\* the calls made to a port
CallsTo(port) == { k \in 1..Len(calls) : calls[k][1] = port }

\* the graph operation an intent is dispatched to, with its arguments and limit
\* (compare_products has no limit)
GraphDispatch(p) ==
    CASE p.query_type = "similarity" ->
           <<"neo4j", "find_similar_products", <<p.extracted_params["reference_product"]>>, 5>>
      [] p.query_type = "price_comparison" ->
           <<"neo4j", "find_cheaper_alternatives",
             <<p.extracted_params["reference_product"]>>, 5>>
      [] p.query_type = "recommendation" ->
           <<"neo4j", "find_by_category", <<p.extracted_params["use_case"]>>, 10>>
      [] p.query_type = "comparison" ->
           <<"neo4j", "compare_products",
             <<p.extracted_params["product1"], p.extracted_params["product2"]>>, 0>>

\* the vector search of an executed plan: five results for the raw query
VectorSearch == <<"qdrant", "get_products_qdrant_list", <<query>>, 5>>

Determiners == {"el", "la", "los", "las", "un", "una", "unos", "unas"}

\* text c starts with determiner d followed by whitespace
LedBy(c, d) ==
    /\ Len(c) > Len(d)
    /\ SubSeq(c, 1, Len(d)) = d
    /\ Ch(c, Len(d) + 1) \in WS

\* text c without its leading determiner d and the whitespace after it
AfterDeterminer(c, d) == SubSeq(c, LStripFrom(c, Len(d) + 1), Len(c))

\* the match of the first pattern of the query type's group in the query
ReferenceMatch ==
    FirstMatch(IF query_type = "similarity" THEN SIMILARITY_PATTERNS ELSE PRICE_PATTERNS,
               Lower(query))

\* the trimmed text captured by that match
CapturedText == Strip(Group(ReferenceMatch, Lower(query), 1))

\* C19: for the query types similarity and price_comparison, reference_product is the
\* trimmed captured text without one leading determiner followed by whitespace: the
\* determiner is removed at the start only and once only, and a text that does not
\* start with a determiner is returned as it is
C19_OneLeadingDeterminerRemoved ==
    ( /\ pc = "extracted"
      /\ query_type \in {"similarity", "price_comparison"}
      /\ ReferenceMatch.ok )
    => /\ "reference_product" \in DOMAIN plan.extracted_params
       /\ IF \E d \in Determiners : LedBy(CapturedText, d)
          THEN \E d \in Determiners :
                  /\ LedBy(CapturedText, d)
                  /\ plan.extracted_params["reference_product"]
                        = AfterDeterminer(CapturedText, d)
          ELSE plan.extracted_params["reference_product"] = CapturedText

\* two determiners lead the captured text and the second one is kept
C19_Witness ==
    /\ pc = "extracted"
    /\ query_type = "similarity"
    /\ query = "similar a la el pulsera 9"
    /\ "reference_product" \in DOMAIN plan.extracted_params
    /\ plan.extracted_params["reference_product"] = "el pulsera 9"

\* the price-ceiling phrase of the claim: menor, menos or hasta, an optional "de", an
\* optional currency marker, an integer
CeilingPhrase ==
    <<Alt(<< <<L("menor")>>, <<L("menos")>>, <<L("hasta")>> >>), Sp,
      Opt(<<L("de"), Sp>>), Opt(<<L("usd"), Sp>>), Open, Plus("digit"), Close>>

CeilingMatch == Search(CeilingPhrase, Lower(query))

\* C20: for every query type, a query with a price-ceiling phrase, with or without
\* the currency marker, gets max_price equal to the integer of the phrase, and a
\* query without such a phrase gets no max_price
C20_CeilingExtracted ==
    pc = "extracted"
    => IF CeilingMatch.ok
       THEN /\ "max_price" \in DOMAIN plan.extracted_params
            /\ plan.extracted_params["max_price"]
                  = ParseNumber(Group(CeilingMatch, Lower(query), 1))
       ELSE "max_price" \notin DOMAIN plan.extracted_params

SizeMatch == Search(SizePattern, Lower(query))

RequiredParameters(t) ==
    IF t = "comparison" THEN {"product1", "product2"}
    ELSE IF t \in {"similarity", "price_comparison"} THEN {"reference_product"}
    ELSE IF t = "recommendation" THEN {"use_case"}
    ELSE {}

\* a string with a first and a last character that are not whitespace
NonEmptyTrimmed(v) == Len(v) > 0 /\ Ch(v, 1) \notin WS /\ Ch(v, Len(v)) \notin WS

\* C22: when the query type given to extract_parameters is the one classify_query
\* gives the query and is not simple, the dictionary has the parameters the type
\* requires, and product1 and product2 of a comparison are non-empty trimmed strings
C22_RequiredParametersPresent ==
    ( /\ pc = "extracted"
      /\ query_type # "simple"
      /\ query_type = classify_query(query) )
    => /\ RequiredParameters(query_type) \subseteq DOMAIN plan.extracted_params
       /\ query_type = "comparison"
            => /\ NonEmptyTrimmed(plan.extracted_params["product1"])
               /\ NonEmptyTrimmed(plan.extracted_params["product2"])

\* C23: over the calls of get_neo4j_tool, close and reset_neo4j_tool of one process,
\* at most one driver is ever created, and a driver is closed only at shutdown
C23_AcquiredOnceReleasedAtShutdown ==
    /\ Len(drivers) <= 1
    /\ \A i \in DOMAIN drivers : drivers[i] = "closed" => pc = "shutdown"

\* C27: the current singleton is never an instance whose driver is closed, and
\* get_neo4j_tool has just returned the current singleton
C27_SingletonOpen ==
    /\ neo4j_instance # 0 => drivers[neo4j_instance] = "open"
    /\ pc = "got" => /\ neo4j_instance # 0
                     /\ \E t \in Threads : threads[t].tool = neo4j_instance

\* get_neo4j_tool returns a second instance after the first one was closed
C27_Witness ==
    /\ pc = "got"
    /\ Len(drivers) = 2
    /\ drivers[1] = "closed"
    /\ neo4j_instance = 2
    /\ drivers[2] = "open"

\* C28: a close() on an instance that is not the current singleton leaves the
\* singleton reachable, so that after the final reset no driver is left open
C28_NoDriverLeftOpen ==
    pc = "shutdown" => \A i \in DOMAIN drivers : drivers[i] = "closed"

\* C24: when the plan needs both ports, the vector call does not wait for the graph
\* call: by the time the graph call has completed, the vector call has been issued
C24_CallsIssuedTogether ==
    ( /\ pc = "neo4j_done"
      /\ neo4j_tool
      /\ qdrant_tool
      /\ plan.use_neo4j
      /\ plan.use_qdrant
      /\ plan.query_type \in {"comparison", "recommendation"} )
    => CallsTo("qdrant") # {}

\* the names of the products of the graph that are not in stock
OutOfStockNames == { p.name : p \in { q \in GraphProducts : q.stock_status # "instock" } }

\* C25: every record a graph operation returns, and both product views of a
\* comparison, have the stock status in-stock, and the text returned for a plan that
\* uses the graph alone names no product that is out of stock
C25_GraphRecordsInStock ==
    /\ neo4j_result.type = "list"
          => \A i \in 1..Len(neo4j_result.v) : neo4j_result.v[i].stock_status = "instock"
    /\ (neo4j_result.type = "dict" /\ "product1" \in DOMAIN neo4j_result.v)
          => /\ neo4j_result.v["product1"].stock_status = "instock"
             /\ neo4j_result.v["product2"].stock_status = "instock"
    /\ (pc = "returned" /\ plan.use_neo4j /\ ~plan.use_qdrant /\ neo4j_tool)
          => \A n \in OutOfStockNames : ~Contains(result, n)

\* a similarity plan answered from the graph: a product similar to the reference is
\* out of stock and the text lists the ones in stock
C25_Witness ==
    /\ pc = "returned"
    /\ plan.query_type = "similarity"
    /\ neo4j_tool
    /\ query = "similar al pulsera 9"
    /\ Len(neo4j_result.v) = 1
    /\ Contains(result, "Pulsera Cuarzo Rosa")

\* the plan being executed, without its steps
Unstepped == [plan EXCEPT !.steps = <<>>]

\* the port calls execute_plan makes for plan p with the ports given, in order
PortCalls(p) ==
    (IF p.use_neo4j /\ neo4j_tool THEN << GraphDispatch(p) >> ELSE <<>>)
      \o (IF p.use_qdrant /\ qdrant_tool /\ p.query_type \in {"comparison", "recommendation"}
          THEN << VectorSearch >> ELSE <<>>)

\* C26: whatever the steps of the plan, the port calls made are the ones of the plan
\* without steps, the results taken from the ports are results the ports give for
\* the plan without steps, and the string returned is the rendering of those
\* results: two plans that differ in their steps only make the same calls and, on
\* the same port results, return the same string
C26_StepsIgnored ==
    /\ pc \in {"qdrant_done", "combined", "returned"}
          => /\ calls = PortCalls(Unstepped)
             /\ (Unstepped.use_neo4j /\ neo4j_tool) => neo4j_result \in neo4j_executor(Unstepped)
             /\ (Unstepped.use_qdrant /\ qdrant_tool)
                   => qdrant_result \in qdrant_executor(Unstepped, query)
    /\ pc = "returned"
          => /\ combined = combine_results(neo4j_result, qdrant_result).value
             /\ result = format_results(combined, Unstepped.query_type).value

\* a plan whose steps are not the ones create_plan wrote was executed with both
\* ports and returned a string
C26_Witness ==
    /\ pc = "returned"
    /\ plan.steps # create_plan(query).steps
    /\ plan.steps # <<>>
    /\ Len(calls) = 2

\* C29: under every interleaving of the requests that call get_neo4j_tool, one
\* driver at most is created and the requests that hold an instance hold the same one
C29_OneInstanceShared ==
    pc = "serving"
    => /\ Len(drivers) <= 1
       /\ \A t, u \in Threads :
             (threads[t].pc = "holding" /\ threads[u].pc = "holding")
                => threads[t].tool = threads[u].tool

\* execute_plan has been entered for the request
PlanEntered == pc \in {"planned", "neo4j_done", "qdrant_done", "combined"} \/ plan # NoPlan

\* C30: deep_agent_search enters execute_plan only with a plan of type comparison,
\* similarity, price_comparison or recommendation that uses the graph; a query
\* classified simple is answered by the direct vector search, with no plan executed
C30_SimpleNeverExecuted ==
    caller = "deep_agent_search"
    => /\ PlanEntered
            => /\ plan.query_type \in {"comparison", "similarity", "price_comparison",
                                       "recommendation"}
               /\ plan.use_neo4j
       /\ (pc \in {"returned", "raised"} /\ MatchingGroups(query) = {})
            => /\ ~PlanEntered
               /\ Len(calls) = 1
               /\ calls[1][2] = "get_products_rag"

\* a query that no pattern matches was answered by the direct search
C30_Witness ==
    /\ caller = "deep_agent_search"
    /\ pc = "returned"
    /\ query = "pulseras de cuero"
    /\ plan = NoPlan
    /\ Len(calls) = 1
    /\ calls[1][2] = "get_products_rag"
=============================================================================
